---- MODULE Spec2Model ----
(***************************************************************************)
(* A model of three programs of the repository:                            *)
(*   - gui/vendor/ionicons/builder/scripts/eotlitetool.py, which builds an *)
(*     EOT header from the tables of an OpenType font and writes header +  *)
(*     font to a .eotlite file, for every font on its command line;        *)
(*   - parts/plugins/x-syncthing.py, the snapcraft plugin that stages the  *)
(*     sources under a GOPATH, runs the build and copies the binaries;     *)
(*   - gui/vendor/ionicons/builder/scripts/generate_font.py, which gives   *)
(*     every source icon a codepoint of the icon font.                     *)
(* Fonts are byte sequences with the layout the tool documents; every      *)
(* struct.unpack and struct.pack of the tool is computed on the bytes.     *)
(***************************************************************************)
EXTENDS Integers, Sequences, FiniteSets, TLC

VARIABLES
    args,       \* eotlitetool: the font files named on the command line
    idx,        \* eotlitetool: position of main()'s loop in args (1-based)
    pc,         \* eotlitetool: where main() is
    data,       \* eotlitetool: the bytes readfont returned for args[idx]
    header,     \* eotlitetool: the header make_eot_header returned
    exc,        \* eotlitetool: the exception that left main(), if any
    reported,   \* eotlitetool: positions for which 'Error reading' was printed
    outfiles,   \* eotlitetool: name of a .eotlite file |-> the bytes written to it
    sourcedir,  \* plugin: the files of self.sourcedir, name |-> content
    gopath,     \* plugin: the tree at self._gopath
    installbin, \* plugin: installdir/bin and its files, name |-> content
    last,       \* plugin: the last step run on the part and how it ended
    environ,    \* plugin: os.environ, the environment of the calling process
    ranwith,    \* plugin: the cwd and env the last _run gave to self.run
    cp,             \* generate_font: the codepoint the next search starts at
    manifest_data,  \* generate_font: manifest_data['icons']
    build_data      \* generate_font: build_data['icons']

eotvars == <<args, idx, pc, data, header, exc, reported, outfiles>>
govars == <<sourcedir, gopath, installbin, last>>
envvars == <<environ, ranwith>>
cpvars == <<cp, manifest_data, build_data>>
vars == <<eotvars, govars, envvars, cpvars>>

-----------------------------------------------------------------------------
(* Bounds of the model.                                                     *)

MaxFiles == 2       \* fonts on one command line
MaxRecords == 2     \* name records in a font's name table
MaxNameLen == 3     \* byte length of a name string
MaxExit == 2        \* exit status of the build tool
MaxManifest == 3    \* icons of the manifest when generate_font starts
MaxSrcIcons == 3    \* icon files the walk of the source directory finds

-----------------------------------------------------------------------------
(* Python's slices and struct's integers.                                   *)

Min(a, b) == IF a <= b THEN a ELSE b

\* s[a:b] of a byte string, 0-based and clamped to the string as Python does
Slice(s, a, b) ==
    LET hi == Min(b, Len(s))
    IN  IF a < hi THEN SubSeq(s, a + 1, hi) ELSE <<>>

U16BE(s, i) == s[i + 1] * 256 + s[i + 2]
U32BE(s, i) == s[i + 1] * 16777216 + s[i + 2] * 65536 + s[i + 3] * 256 + s[i + 4]
U32LE(s, i) == s[i + 4] * 16777216 + s[i + 3] * 65536 + s[i + 2] * 256 + s[i + 1]
U16LE(s, i) == s[i + 2] * 256 + s[i + 1]

PackU16BE(v) == <<(v \div 256) % 256, v % 256>>
PackU32BE(v) == <<(v \div 16777216) % 256, (v \div 65536) % 256, (v \div 256) % 256, v % 256>>
PackU16LE(v) == <<v % 256, (v \div 256) % 256>>
PackU32LE(v) == <<v % 256, (v \div 256) % 256, (v \div 65536) % 256, (v \div 16777216) % 256>>

Zeros(n) == [i \in 1..n |-> 0]

RECURSIVE Join(_)
Join(ss) == IF ss = <<>> THEN <<>> ELSE Head(ss) \o Join(Tail(ss))

multichar(str) == str[1] * 16777216 + str[2] * 65536 + str[3] * 256 + str[4]

multicharval(v) == PackU32BE(v)

-----------------------------------------------------------------------------
(* class EOT, class OpenType.                                               *)

EOT_VERSION == 131073           \* 0x00020001
EOT_MAGIC_NUMBER == 20556       \* 0x504c
EOT_DEFAULT_CHARSET == 1
EOT_HEADER_SIZE == 82           \* struct.calcsize('<4L10B2BL2H7L18x')

SFNT_CFF == multichar(<<79, 84, 84, 79>>)           \* 'OTTO'
SFNT_TRUE == 65536                                  \* 0x10000
SFNT_APPLE == multichar(<<116, 114, 117, 101>>)     \* 'true'

SFNT_SIZE == 12                 \* struct.calcsize('>I4H')
TABLE_DIR_SIZE == 16            \* struct.calcsize('>4I')

TABLE_HEAD == multichar(<<104, 101, 97, 100>>)      \* 'head'
TABLE_NAME == multichar(<<110, 97, 109, 101>>)      \* 'name'
TABLE_OS2 == multichar(<<79, 83, 47, 50>>)          \* 'OS/2'
TABLE_GLYF == multichar(<<103, 108, 121, 102>>)     \* 'glyf'

OS2_FSSELECTION_ITALIC == 1
OS2_SIZE == 86                  \* struct.calcsize('>4xH2xH22x10B4L4xH14x2L')
HEAD_SIZE == 12                 \* struct.calcsize('>8xL')

NAME_HEADER_SIZE == 6
NAME_RECORD_SIZE == 12          \* struct.calcsize('>6H')
NAME_ID_FAMILY == 1
NAME_ID_STYLE == 2
NAME_ID_UNIQUE == 3
NAME_ID_FULL == 4
NAME_ID_VERSION == 5
PLATFORM_ID_UNICODE == 0
PLATFORM_ID_MICROSOFT == 3
ENCODING_ID_MICROSOFT_UNICODEBMP == 1
LANG_ID_MICROSOFT_EN_US == 1033 \* 0x0409

-----------------------------------------------------------------------------
(* Exceptions. A function of the tool returns either [exc |-> "none", ...]  *)
(* or the exception it raised: FontError with its message, or struct.error  *)
(* when struct.unpack is handed a string of the wrong length.               *)

FontError(msg) == [exc |-> "FontError", msg |-> msg, tag |-> 0]
FontErrorTag(msg, tag) == [exc |-> "FontError", msg |-> msg, tag |-> tag]
StructError == [exc |-> "struct.error", msg |-> "unpack requires a string argument", tag |-> 0]
NoException == [exc |-> "none", msg |-> "", tag |-> 0]

-----------------------------------------------------------------------------
(* get_table_directory                                                      *)

\* the directory entry struct.unpack('>4I', data[start:end]) yields for table i
DirEntry(bytes, i) ==
    LET start == SFNT_SIZE + i * TABLE_DIR_SIZE
    IN  [tag |-> U32BE(bytes, start), checksum |-> U32BE(bytes, start + 4),
         offset |-> U32BE(bytes, start + 8), length |-> U32BE(bytes, start + 12)]

\* table_dir[tag] = {...} for i in range(0, numTables): a later entry replaces
\* an earlier one with the same tag
TableDir(bytes, numTables) ==
    LET tags == {DirEntry(bytes, i).tag : i \in 0..(numTables - 1)}
        lastIndex(t) == CHOOSE i \in 0..(numTables - 1) :
                      /\ DirEntry(bytes, i).tag = t
                      /\ \A j \in 0..(numTables - 1) : DirEntry(bytes, j).tag = t => j <= i
    IN  [t \in tags |-> [offset |-> DirEntry(bytes, lastIndex(t)).offset,
                         length |-> DirEntry(bytes, lastIndex(t)).length,
                         checksum |-> DirEntry(bytes, lastIndex(t)).checksum]]

\* get_table_directory with the test of the directory's end before the test of
\* the version
get_table_directory_BoundFirst(bytes) ==
    LET datalen == Len(bytes)
        sfntvers == U32BE(bytes, 0)
        numTables == U16BE(bytes, 4)
    IN  IF SFNT_SIZE > datalen
        THEN FontError("truncated font data")
        ELSE IF SFNT_SIZE + TABLE_DIR_SIZE * numTables > datalen
        THEN FontError("truncated font data, table directory extends past end of data")
        ELSE IF sfntvers # SFNT_CFF /\ sfntvers # SFNT_TRUE
        THEN FontError("invalid font type")
        ELSE [exc |-> "none", version |-> sfntvers, numTables |-> numTables,
              tableDir |-> TableDir(bytes, numTables)]

get_table_directory(bytes) ==
    LET datalen == Len(bytes)
        sfntvers == U32BE(bytes, 0)
        numTables == U16BE(bytes, 4)
    IN  IF SFNT_SIZE > datalen
        THEN FontError("truncated font data")
        ELSE IF sfntvers # SFNT_CFF /\ sfntvers # SFNT_TRUE
        THEN FontError("invalid font type")
        ELSE IF SFNT_SIZE + TABLE_DIR_SIZE * numTables > datalen
        THEN FontError("truncated font data, table directory extends past end of data")
        ELSE [exc |-> "none", version |-> sfntvers, numTables |-> numTables,
              tableDir |-> TableDir(bytes, numTables)]

-----------------------------------------------------------------------------
(* get_name_records                                                         *)

NameRecord(nametable, i) ==
    LET start == NAME_HEADER_SIZE + i * NAME_RECORD_SIZE
    IN  [platformID |-> U16BE(nametable, start), encodingID |-> U16BE(nametable, start + 2),
         languageID |-> U16BE(nametable, start + 4), nameID |-> U16BE(nametable, start + 6),
         length |-> U16BE(nametable, start + 8), offset |-> U16BE(nametable, start + 10)]

\* the test of the loop's `continue`, negated: the record is kept
NameRecordKept(r) ==
    ~ (\/ r.platformID # PLATFORM_ID_MICROSOFT
       \/ r.encodingID # ENCODING_ID_MICROSOFT_UNICODEBMP
       \/ r.languageID # LANG_ID_MICROSOFT_EN_US)

\* NameRecs in which the first kept record of a nameID stays
NameRecs_FirstWins(nametable, count) ==
    LET kept == {i \in 0..(count - 1) : NameRecordKept(NameRecord(nametable, i))}
        ids == {NameRecord(nametable, i).nameID : i \in kept}
        firstIndex(n) == CHOOSE i \in kept :
                      /\ NameRecord(nametable, i).nameID = n
                      /\ \A j \in kept : NameRecord(nametable, j).nameID = n => j >= i
    IN  [n \in ids |-> [offset |-> NameRecord(nametable, firstIndex(n)).offset,
                        length |-> NameRecord(nametable, firstIndex(n)).length]]

\* namerecs[nameID] = {...}: the last kept record of a nameID stays
NameRecs(nametable, count) ==
    LET kept == {i \in 0..(count - 1) : NameRecordKept(NameRecord(nametable, i))}
        ids == {NameRecord(nametable, i).nameID : i \in kept}
        lastIndex(n) == CHOOSE i \in kept :
                      /\ NameRecord(nametable, i).nameID = n
                      /\ \A j \in kept : NameRecord(nametable, j).nameID = n => j <= i
    IN  [n \in ids |-> [offset |-> NameRecord(nametable, lastIndex(n)).offset,
                        length |-> NameRecord(nametable, lastIndex(n)).length]]

get_name_records(nametable) ==
    LET hdr == Slice(nametable, 2, 6)
        count == U16BE(hdr, 0)
        strOffset == U16BE(hdr, 2)
    IN  IF Len(hdr) # 4
        THEN StructError
        ELSE IF count * NAME_RECORD_SIZE + NAME_HEADER_SIZE > Len(nametable)
        THEN FontError("names exceed size of name table")
        ELSE [exc |-> "none", count |-> count, strOffset |-> strOffset,
              namerecords |-> NameRecs(nametable, count)]

-----------------------------------------------------------------------------
(* make_eot_name_headers, make_root_string                                  *)

\* the order of names in the variable portion of the EOT header
eotnames == <<NAME_ID_FAMILY, NAME_ID_STYLE, NAME_ID_VERSION, NAME_ID_FULL>>

\* PackName that copies the bytes of the string in the order of the font
PackName_NoSwap(fontdata, start, nlen) ==
    LET nhalf == nlen \div 2
        str == Slice(fontdata, start, start + nlen)
    IN  IF Len(str) # 2 * nhalf
        THEN StructError
        ELSE [exc |-> "none", bytes |-> PackU16LE(nlen) \o str \o Zeros(2)]

\* struct.unpack('>' + nformat, ...) then struct.pack('<H' + nformat + '2x', nlen, *nstr)
\* for one record; nformat counts nlen / 2 halfwords (Python 2 integer division)
PackName(fontdata, start, nlen) ==
    LET nhalf == nlen \div 2
        str == Slice(fontdata, start, start + nlen)
        swapped == [k \in 1..(2 * nhalf) |-> IF k % 2 = 1 THEN str[k + 1] ELSE str[k - 1]]
    IN  IF Len(str) # 2 * nhalf
        THEN StructError
        ELSE [exc |-> "none", bytes |-> PackU16LE(nlen) \o swapped \o Zeros(2)]

\* NameHeader with a name that is absent emitted as two bytes instead of four
NameHeader_TwoZeros(fontdata, nameoffset, name, nameid) ==
    IF nameid \in DOMAIN name.namerecords
    THEN LET namerecord == name.namerecords[nameid]
         IN  PackName(fontdata, nameoffset + name.strOffset + namerecord.offset,
                      namerecord.length)
    ELSE [exc |-> "none", bytes |-> Zeros(2)]

\* one pass of the loop over eotnames
NameHeader(fontdata, nameoffset, name, nameid) ==
    IF nameid \in DOMAIN name.namerecords
    THEN LET namerecord == name.namerecords[nameid]
         IN  PackName(fontdata, nameoffset + name.strOffset + namerecord.offset,
                      namerecord.length)
    ELSE [exc |-> "none", bytes |-> Zeros(4)]

make_eot_name_headers(fontdata, nameTableDir) ==
    LET nameoffset == nameTableDir.offset
        namelen == nameTableDir.length
        name == get_name_records(Slice(fontdata, nameoffset, nameoffset + namelen))
        nameheaders == [k \in 1..Len(eotnames) |->
                           NameHeader(fontdata, nameoffset, name, eotnames[k])]
        failed == {k \in 1..Len(eotnames) : nameheaders[k].exc # "none"}
        first == CHOOSE k \in failed : \A j \in failed : k <= j
    IN  IF name.exc # "none"
        THEN name
        ELSE IF failed # {}
        THEN nameheaders[first]
        ELSE [exc |-> "none",
              bytes |-> Join([k \in 1..Len(eotnames) |-> nameheaders[k].bytes])]

make_root_string == Zeros(2)

-----------------------------------------------------------------------------
(* make_eot_header                                                          *)

required == <<TABLE_HEAD, TABLE_NAME, TABLE_OS2>>

\* struct.unpack(OpenType.OS2_UNPACK, ...): the fields at their offsets
OS2Fields(os2) ==
    [weight |-> U16BE(os2, 4), fsType |-> U16BE(os2, 8),
     panose |-> SubSeq(os2, 33, 42),
     urange |-> <<U32BE(os2, 42), U32BE(os2, 46), U32BE(os2, 50), U32BE(os2, 54)>>,
     fsSelection |-> U16BE(os2, 62),
     codepage |-> <<U32BE(os2, 78), U32BE(os2, 82)>>]

\* struct.pack(EOT.EOT_HEADER_PACK, ...): '<4L10B2BL2H7L18x'
PackFixed(eotSize, fontDataSize, os2fields, italic, checkSumAdjustment) ==
    PackU32LE(eotSize) \o PackU32LE(fontDataSize) \o PackU32LE(EOT_VERSION) \o PackU32LE(0)
    \o os2fields.panose \o <<EOT_DEFAULT_CHARSET, italic>>
    \o PackU32LE(os2fields.weight) \o PackU16LE(os2fields.fsType) \o PackU16LE(EOT_MAGIC_NUMBER)
    \o PackU32LE(os2fields.urange[1]) \o PackU32LE(os2fields.urange[2])
    \o PackU32LE(os2fields.urange[3]) \o PackU32LE(os2fields.urange[4])
    \o PackU32LE(os2fields.codepage[1]) \o PackU32LE(os2fields.codepage[2])
    \o PackU32LE(checkSumAdjustment) \o Zeros(18)

\* EotSize without the root string
EotSize_NoRoot(nameheaders, rootstring, fontDataSize) ==
    EOT_HEADER_SIZE + Len(nameheaders) + fontDataSize

\* eotSize = struct.calcsize(EOT.EOT_HEADER_PACK) + len(nameheaders) + len(rootstring) + fontDataSize
EotSize(nameheaders, rootstring, fontDataSize) ==
    EOT_HEADER_SIZE + Len(nameheaders) + Len(rootstring) + fontDataSize

\* MissingRequired naming the last missing table instead of the first
MissingRequired_Last(tableDir) ==
    LET missing == {k \in 1..Len(required) : required[k] \notin DOMAIN tableDir}
    IN  IF missing = {} THEN 0
        ELSE required[CHOOSE k \in missing : \A j \in missing : k >= j]

\* the first table of `required` that is not in tableDir, 0 when all are
MissingRequired(tableDir) ==
    LET missing == {k \in 1..Len(required) : required[k] \notin DOMAIN tableDir}
    IN  IF missing = {} THEN 0
        ELSE required[CHOOSE k \in missing : \A j \in missing : k <= j]

\* make_eot_header that also rejects an OS/2 table of exactly the length it reads
make_eot_header_Os2OffByOne(fontdata) ==
    LET fontDataSize == Len(fontdata)
        font == get_table_directory(fontdata)
        tableDir == font.tableDir
        os2Dir == tableDir[TABLE_OS2]
        os2 == Slice(fontdata, os2Dir.offset, os2Dir.offset + OS2_SIZE)
        os2fields == OS2Fields(os2)
        italic == os2fields.fsSelection % (2 * OS2_FSSELECTION_ITALIC)
        headDir == tableDir[TABLE_HEAD]
        head == Slice(fontdata, headDir.offset, headDir.offset + HEAD_SIZE)
        checkSumAdjustment == U32BE(head, 8)
        nameheaders == make_eot_name_headers(fontdata, tableDir[TABLE_NAME])
        rootstring == make_root_string
        eotSize == EotSize(nameheaders.bytes, rootstring, fontDataSize)
        fixed == PackFixed(eotSize, fontDataSize, os2fields, italic, checkSumAdjustment)
    IN  IF font.exc # "none"
        THEN font
        ELSE IF MissingRequired(tableDir) # 0
        THEN FontErrorTag("missing required table", MissingRequired(tableDir))
        ELSE IF OS2_SIZE >= os2Dir.length
        THEN FontError("OS/2 table invalid length")
        ELSE IF Len(os2) # OS2_SIZE
        THEN StructError
        ELSE IF HEAD_SIZE > headDir.length
        THEN FontError("head table invalid length")
        ELSE IF Len(head) # HEAD_SIZE
        THEN StructError
        ELSE IF nameheaders.exc # "none"
        THEN nameheaders
        ELSE [exc |-> "none", bytes |-> fixed \o nameheaders.bytes \o rootstring]

make_eot_header(fontdata) ==
    LET fontDataSize == Len(fontdata)
        font == get_table_directory(fontdata)
        tableDir == font.tableDir
        os2Dir == tableDir[TABLE_OS2]
        os2 == Slice(fontdata, os2Dir.offset, os2Dir.offset + OS2_SIZE)
        os2fields == OS2Fields(os2)
        italic == os2fields.fsSelection % (2 * OS2_FSSELECTION_ITALIC)
        headDir == tableDir[TABLE_HEAD]
        head == Slice(fontdata, headDir.offset, headDir.offset + HEAD_SIZE)
        checkSumAdjustment == U32BE(head, 8)
        nameheaders == make_eot_name_headers(fontdata, tableDir[TABLE_NAME])
        rootstring == make_root_string
        eotSize == EotSize(nameheaders.bytes, rootstring, fontDataSize)
        fixed == PackFixed(eotSize, fontDataSize, os2fields, italic, checkSumAdjustment)
    IN  IF font.exc # "none"
        THEN font
        ELSE IF MissingRequired(tableDir) # 0
        THEN FontErrorTag("missing required table", MissingRequired(tableDir))
        ELSE IF OS2_SIZE > os2Dir.length
        THEN FontError("OS/2 table invalid length")
        ELSE IF Len(os2) # OS2_SIZE
        THEN StructError
        ELSE IF HEAD_SIZE > headDir.length
        THEN FontError("head table invalid length")
        ELSE IF Len(head) # HEAD_SIZE
        THEN StructError
        ELSE IF nameheaders.exc # "none"
        THEN nameheaders
        ELSE [exc |-> "none", bytes |-> fixed \o nameheaders.bytes \o rootstring]

-----------------------------------------------------------------------------
(* Font files. A file is named by the description of its contents, laid    *)
(* out as the tool's header comment documents: the SFNT header, the table  *)
(* directory, then the tables, the name table last with its string         *)
(* storage at the end of the file.                                         *)

\* a Microsoft / Unicode BMP / en-US name record
MsRec(nid, len) ==
    [pid |-> PLATFORM_ID_MICROSOFT, eid |-> ENCODING_ID_MICROSOFT_UNICODEBMP,
     lid |-> LANG_ID_MICROSOFT_EN_US, nid |-> nid, len |-> len]

\* a record of another platform, encoding or language
OtherRec(nid, len) ==
    IF nid = NAME_ID_FAMILY
    THEN [MsRec(nid, len) EXCEPT !.pid = PLATFORM_ID_UNICODE]
    ELSE IF nid = NAME_ID_STYLE
    THEN [MsRec(nid, len) EXCEPT !.eid = 0]
    ELSE [MsRec(nid, len) EXCEPT !.lid = 2057]

RECURSIVE RecOffset(_, _)
RecOffset(recs, i) == IF i = 1 THEN 0 ELSE RecOffset(recs, i - 1) + recs[i - 1].len

NameRecordBytes(recs, i) ==
    PackU16BE(recs[i].pid) \o PackU16BE(recs[i].eid) \o PackU16BE(recs[i].lid)
    \o PackU16BE(recs[i].nid) \o PackU16BE(recs[i].len) \o PackU16BE(RecOffset(recs, i))

\* byte j of the string of record i
NameStringBytes(recs, i) == [j \in 1..recs[i].len |-> 16 * i + j]

NameTableBytes(recs) ==
    LET n == Len(recs)
    IN  PackU16BE(0) \o PackU16BE(n) \o PackU16BE(NAME_HEADER_SIZE + n * NAME_RECORD_SIZE)
        \o Join([i \in 1..n |-> NameRecordBytes(recs, i)])
        \o Join([i \in 1..n |-> NameStringBytes(recs, i)])

HeadTableBytes == Zeros(8) \o <<1, 2, 3, 4>>

OS2TableBytes == [i \in 1..OS2_SIZE |-> i]

TableBytes(f, tag) ==
    IF tag = TABLE_HEAD THEN HeadTableBytes
    ELSE IF tag = TABLE_OS2 THEN OS2TableBytes
    ELSE IF tag = TABLE_NAME THEN NameTableBytes(f.recs)
    ELSE <<7, 7, 7, 7>>

\* the length the directory declares for a table
DeclaredLength(f, tag) ==
    IF tag = TABLE_HEAD THEN f.headlen
    ELSE IF tag = TABLE_OS2 THEN f.os2len
    ELSE IF tag = TABLE_NAME /\ f.namelen >= 0 THEN f.namelen
    ELSE Len(TableBytes(f, tag))

RECURSIVE TableOffset(_, _)
TableOffset(f, i) ==
    IF i = 1 THEN SFNT_SIZE + TABLE_DIR_SIZE * Len(f.tabs)
    ELSE TableOffset(f, i - 1) + Len(TableBytes(f, f.tabs[i - 1]))

FontBytes(f) ==
    LET n == Len(f.tabs)
        sfnt == PackU32BE(f.ver) \o PackU16BE(f.ndecl) \o Zeros(6)
        dir == Join([i \in 1..n |->
                        PackU32BE(f.tabs[i]) \o PackU32BE(0) \o PackU32BE(TableOffset(f, i))
                        \o PackU32BE(DeclaredLength(f, f.tabs[i]))])
        full == sfnt \o dir \o Join([i \in 1..n |-> TableBytes(f, f.tabs[i])])
    IN  IF f.only >= 0 THEN SubSeq(full, 1, f.only)
        ELSE SubSeq(full, 1, Len(full) - f.cut)

AllTables == <<TABLE_HEAD, TABLE_OS2, TABLE_NAME>>

Font(ver, tabs, ndecl, os2len, headlen, recs, cut, only) ==
    [ver |-> ver, tabs |-> tabs, ndecl |-> ndecl, os2len |-> os2len, headlen |-> headlen,
     recs |-> recs, cut |-> cut, only |-> only, namelen |-> -1]

\* a well-formed TrueType font with the name records recs
GoodFont(recs) == Font(SFNT_TRUE, AllTables, Len(AllTables), OS2_SIZE, HEAD_SIZE, recs, 0, -1)

NameIDs == {NAME_ID_FAMILY, NAME_ID_STYLE, NAME_ID_FULL, NAME_ID_VERSION}

\* name tables: records of two bytes each, kept or not by the tool's filter, then
\* a last record of any length up to MaxNameLen
FirstRecs == {MsRec(n, 2) : n \in NameIDs} \cup {OtherRec(n, 2) : n \in NameIDs}
LastRecs == {MsRec(n, l) : n \in NameIDs, l \in 0..MaxNameLen}
                \cup {OtherRec(n, l) : n \in NameIDs, l \in 0..MaxNameLen}

RECURSIVE RecSeqs(_)
RecSeqs(n) ==
    IF n = 0 THEN {<<>>}
    ELSE IF n = 1 THEN {<<r>> : r \in LastRecs}
    ELSE {<<r>> \o s : r \in FirstRecs, s \in RecSeqs(n - 1)}

NameTables == UNION {RecSeqs(n) : n \in 0..MaxRecords}

\* fonts that differ in their name table, whole or with the last byte missing
NameFonts == {[GoodFont(recs) EXCEPT !.cut = c] : recs \in NameTables, c \in {0, 1}}

TableLists ==
    {<<>>, <<TABLE_HEAD>>, <<TABLE_OS2>>, <<TABLE_NAME>>, <<TABLE_HEAD, TABLE_OS2>>,
     <<TABLE_HEAD, TABLE_NAME>>, <<TABLE_OS2, TABLE_NAME>>, AllTables,
     <<TABLE_GLYF>> \o AllTables, <<TABLE_HEAD, TABLE_HEAD, TABLE_OS2>>}

\* fonts that differ in their version, in the tables of their directory and in
\* the number of tables the SFNT header declares
DirFonts ==
    {Font(v, t, Len(t) + e, OS2_SIZE, HEAD_SIZE, <<>>, c, -1) :
        v \in {SFNT_TRUE, SFNT_CFF, SFNT_APPLE, 131072}, t \in TableLists,
        e \in {0, 1}, c \in {0, 1}}

\* fonts whose directory declares other lengths for the OS/2 and head tables
LengthFonts ==
    {[GoodFont(<<>>) EXCEPT !.os2len = o, !.headlen = h] :
        o \in {OS2_SIZE + 2, OS2_SIZE, OS2_SIZE - 1, 60, 0},
        h \in {HEAD_SIZE + 42, HEAD_SIZE, HEAD_SIZE - 1, 0}}

\* an empty file and a file shorter than the SFNT header
ShortFonts == {[GoodFont(<<>>) EXCEPT !.only = n] : n \in {0, 4, SFNT_SIZE}}

\* the offsets of the head, OS/2 and name tables in a font with AllTables
HeadOffset == SFNT_SIZE + TABLE_DIR_SIZE * Len(AllTables)
OS2Offset == HeadOffset + HEAD_SIZE
NameOffset == OS2Offset + OS2_SIZE

\* files that end within the head table, within the OS/2 table, where the name
\* table starts, within the header of the name table, within its records
CutFonts ==
    {[GoodFont(recs) EXCEPT !.only = n, !.headlen = h] :
        recs \in {<<>>, <<MsRec(NAME_ID_FAMILY, 2)>>},
        n \in {HeadOffset + 6, OS2Offset + 40, NameOffset, NameOffset + 3},
        h \in {HEAD_SIZE, 0}}
    \cup {[GoodFont(<<MsRec(NAME_ID_FAMILY, 2)>>) EXCEPT
              !.only = NameOffset + NAME_HEADER_SIZE + 6]}

\* fonts whose directory declares a length for the name table that is shorter
\* than the table's header, or than its records
ShortNameFonts ==
    {[GoodFont(recs) EXCEPT !.namelen = n] :
        recs \in {<<>>, <<MsRec(NAME_ID_FAMILY, 2)>>},
        n \in {0, 3, 5, NAME_HEADER_SIZE, NAME_HEADER_SIZE + NAME_RECORD_SIZE}}

\* fonts with a record for each of the four names of the header, in another
\* order than the header's, with strings of one and of two UTF-16 code units
SlotFonts ==
    {GoodFont(<<MsRec(NAME_ID_FULL, 2), MsRec(NAME_ID_VERSION, 4),
                MsRec(NAME_ID_STYLE, 2), MsRec(NAME_ID_FAMILY, 4)>>),
     GoodFont(<<MsRec(NAME_ID_VERSION, 4), MsRec(NAME_ID_FAMILY, 2),
                OtherRec(NAME_ID_STYLE, 4), MsRec(NAME_ID_FULL, 0)>>)}

Fonts == NameFonts \cup DirFonts \cup LengthFonts \cup ShortFonts \cup CutFonts
            \cup ShortNameFonts \cup SlotFonts

\* the fonts of command lines with several fonts
BatchFonts ==
    {GoodFont(<<>>), GoodFont(<<MsRec(NAME_ID_FAMILY, 2)>>),
     [GoodFont(<<>>) EXCEPT !.only = 0],
     [GoodFont(<<>>) EXCEPT !.ver = 131072],
     [GoodFont(<<>>) EXCEPT !.tabs = <<TABLE_HEAD, TABLE_OS2>>, !.ndecl = 2],
     [GoodFont(<<>>) EXCEPT !.os2len = 0]}

RECURSIVE Batches(_)
Batches(n) ==
    IF n = 0 THEN {<<>>}
    ELSE {<<f>> \o b : f \in BatchFonts, b \in Batches(n - 1)}

CommandLines ==
    {<<f>> : f \in Fonts} \cup UNION {Batches(n) : n \in 0..MaxFiles}

-----------------------------------------------------------------------------
(* eotname, readfont, write_eot_font, main                                  *)

eotname(ttf) == <<ttf, "eotlite">>

readfont(f) == FontBytes(f)

\* write_eot_font that writes the font before the header
write_eot_font_DataFirst(files, eot, hdr, bytes) ==
    [n \in DOMAIN files \cup {eot} |-> IF n = eot THEN bytes \o hdr ELSE files[n]]

\* open(eot, 'wb').write(''.join((header, data)))
write_eot_font(files, eot, hdr, bytes) ==
    [n \in DOMAIN files \cup {eot} |-> IF n = eot THEN hdr \o bytes ELSE files[n]]

EotInit ==
    /\ args \in CommandLines
    /\ idx = 1
    /\ pc = "loop"
    /\ data = <<>>
    /\ header = <<>>
    /\ exc = NoException
    /\ reported = {}
    /\ outfiles = [n \in {} |-> <<>>]
    /\ cp = 0
    /\ manifest_data = <<>>
    /\ build_data = <<>>
    \* the plugin is not run while eotlitetool is
    /\ sourcedir = <<>>
    /\ gopath = <<>>
    /\ installbin = <<>>
    /\ last = <<>>
    /\ environ = <<>>
    /\ ranwith = <<>>

\* for f in args: data = readfont(f)
ReadFont ==
    /\ pc = "loop"
    /\ idx <= Len(args)
    /\ data' = readfont(args[idx])
    /\ pc' = "read"
    /\ UNCHANGED <<args, idx, header, exc, reported, outfiles, govars, envvars, cpvars>>

\* if len(data) == 0: print 'Error reading %s' % f
ReportEmpty ==
    /\ pc = "read"
    /\ Len(data) = 0
    /\ reported' = reported \cup {idx}
    /\ idx' = idx + 1
    /\ pc' = "loop"
    /\ UNCHANGED <<args, data, header, exc, outfiles, govars, envvars, cpvars>>

\* header = make_eot_header(data); an exception it raises is not caught in main
MakeHeader ==
    /\ pc = "read"
    /\ Len(data) # 0
    /\ LET r == make_eot_header(data)
       IN  IF r.exc = "none"
           THEN /\ header' = r.bytes
                /\ pc' = "write"
                /\ exc' = exc
           ELSE /\ header' = header
                /\ pc' = "raised"
                /\ exc' = r
    /\ UNCHANGED <<args, idx, data, reported, outfiles, govars, envvars, cpvars>>

\* write_eot_font(eot, header, data)
WriteEot ==
    /\ pc = "write"
    /\ outfiles' = write_eot_font(outfiles, eotname(args[idx]), header, data)
    /\ idx' = idx + 1
    /\ pc' = "loop"
    /\ UNCHANGED <<args, data, header, exc, reported, govars, envvars, cpvars>>

\* the loop is over: main returns
MainReturn ==
    /\ pc = "loop"
    /\ idx > Len(args)
    /\ pc' = "done"
    /\ UNCHANGED <<args, idx, data, header, exc, reported, outfiles, govars, envvars, cpvars>>

EotNext == ReadFont \/ ReportEmpty \/ MakeHeader \/ WriteEot \/ MainReturn

EotSpec == EotInit /\ [][EotNext]_vars

-----------------------------------------------------------------------------
(* The snapcraft plugin: the part's directories.                            *)
(* A directory is a map from the names it may hold to what is there:        *)
(* "none", the content of a file, or "dir" for a subdirectory.              *)

SrcNames == {"build.go", "main.go"}
BinNames == {"syncthing", "stcli"}
InstallNames == BinNames \cup {"README"}

NoFiles(names) == [n \in names |-> "none"]

\* the trees a fetch may leave in self.sourcedir
SourceTrees ==
    {[n \in SrcNames |-> IF n = "build.go" THEN "v1" ELSE "none"],
     [n \in SrcNames |-> IF n = "build.go" THEN "v2" ELSE "none"],
     [n \in SrcNames |-> "v1"]}

\* self._gopath does not exist
GoAbsent ==
    [exists |-> FALSE, kind |-> "absent", files |-> NoFiles(SrcNames),
     binexists |-> FALSE, bin |-> NoFiles(BinNames), pkg |-> FALSE]

\* self._gopath holds a symlink at the import path, as staged by a symlinking pull
GoSymlinked == [GoAbsent EXCEPT !.exists = TRUE, !.kind = "symlink"]

\* the bin directories the build tool may leave under the import path
BinDirs ==
    {b \in [BinNames -> {"none", "v1", "v2", "dir"}] : b["stcli"] \in {"none", "v1"}}

NoInstallBin == [exists |-> FALSE, files |-> NoFiles(InstallNames)]

Step(op, prev, e, code, runs, same) ==
    [op |-> op, prev |-> prev, exc |-> e, code |-> code, runs |-> runs, same |-> same]

-----------------------------------------------------------------------------
(* GoPlugin.pull                                                            *)

\* file_utils.link_or_copy_tree(source, destination): the destination becomes a
\* directory that holds every file of the source tree, over what it held; a
\* destination that is a symlink to a directory is written through
link_or_copy_tree(source, g) ==
    IF g.kind = "symlink" THEN g
    ELSE [g EXCEPT !.kind = "dir",
                   !.files = [n \in SrcNames |->
                                 IF source[n] # "none" THEN source[n] ELSE g.files[n]]]

\* pull without the unlink of a symlink at the import path
pull_NoUnlink(g, source) ==
    link_or_copy_tree(source, [g EXCEPT !.exists = TRUE])

\* os.makedirs(self._gopath_src); unlink a symlink at go_package_path;
\* os.makedirs(dirname); link_or_copy_tree(self.sourcedir, go_package_path)
pull(g, source) ==
    LET made == [g EXCEPT !.exists = TRUE]
        unlinked == IF made.kind = "symlink" THEN [made EXCEPT !.kind = "absent"] ELSE made
    IN  link_or_copy_tree(source, unlinked)

-----------------------------------------------------------------------------
(* GoPlugin.clean_pull, GoPlugin.clean_build                                *)

\* clean_pull without the os.path.exists test: shutil.rmtree raises on a
\* directory that does not exist
clean_pull_NoGuard(g) ==
    IF g.exists THEN [gopath |-> GoAbsent, exc |-> "none"]
    ELSE [gopath |-> g, exc |-> "FileNotFoundError"]

\* if os.path.exists(self._gopath): shutil.rmtree(self._gopath)
clean_pull(g) ==
    IF g.exists THEN [gopath |-> GoAbsent, exc |-> "none"]
    ELSE [gopath |-> g, exc |-> "none"]

\* clean_build that removes the whole gopath instead of its pkg directory
clean_build_RmGopath(g) ==
    IF g.exists /\ g.pkg THEN [gopath |-> GoAbsent, exc |-> "none"]
    ELSE [gopath |-> g, exc |-> "none"]

\* if os.path.isdir(self._gopath_pkg): shutil.rmtree(self._gopath_pkg)
clean_build(g) ==
    IF g.exists /\ g.pkg THEN [gopath |-> [g EXCEPT !.pkg = FALSE], exc |-> "none"]
    ELSE [gopath |-> g, exc |-> "none"]

-----------------------------------------------------------------------------
(* GoPlugin._run, GoPlugin._build_environment                               *)
(* A string is the sequence of its pieces; a variable of an environment is  *)
(* unset or set to a string.                                                *)

EnvNames == {"GOPATH", "CGO_LDFLAGS", "LDFLAGS", "HOME"}

Unset == [set |-> FALSE, val |-> <<>>]
Value(v) == [set |-> TRUE, val |-> v]

\* env.get(name, '')
EnvGet(env, name) == IF env[name].set THEN env[name].val ELSE <<>>

\* the environments snapcraft may run the plugin in
Environments ==
    {e \in [EnvNames -> {Unset, Value(<<>>), Value(<<"/root">>), Value(<<"/old/go">>),
                         Value(<<"-lm">>), Value(<<"-Wl,-z,now">>)}] :
        /\ e["HOME"] = Value(<<"/root">>)
        /\ e["GOPATH"] \in {Unset, Value(<<"/old/go">>)}
        /\ e["CGO_LDFLAGS"] \in {Unset, Value(<<>>), Value(<<"-lm">>)}
        /\ e["LDFLAGS"] \in {Unset, Value(<<"-Wl,-z,now">>)}}

\* os.path.join(a, b)
PathJoin(a, b) == a \o <<"/">> \o b

partdir == <<"parts/syncthing">>
installdir == PathJoin(partdir, <<"install">>)
stage_dir == <<"stage">>
go_importpath == <<"github.com/syncthing/syncthing">>

\* self._gopath, self._gopath_src
_gopath == PathJoin(partdir, <<"go">>)
_gopath_src == PathJoin(_gopath, <<"src">>)

\* the library directories looked for under a root, in the order of the search
LibCandidates == << <<"lib">>, <<"usr/lib">> >>

\* the library directories that may exist under installdir and the stage directory
LibPaths ==
    {PathJoin(root, LibCandidates[k]) : root \in {installdir, stage_dir},
                                        k \in 1..Len(LibCandidates)}

\* common.get_library_paths(root, arch_triplet): the candidates under root that
\* exist, in the order of the search
get_library_paths(root, existing) ==
    LET candidates == [k \in 1..Len(LibCandidates) |-> PathJoin(root, LibCandidates[k])]
        Exists(p) == p \in existing
    IN  SelectSeq(candidates, Exists)

\* common.combine_paths(paths, prepend, separator): every path with prepend before
\* it, joined with separator
RECURSIVE combine_paths(_, _, _)
combine_paths(paths, prepend, separator) ==
    IF paths = <<>> THEN <<>>
    ELSE IF Len(paths) = 1 THEN prepend \o Head(paths)
    ELSE prepend \o Head(paths) \o separator \o combine_paths(Tail(paths), prepend, separator)

\* _build_environment without the LDFLAGS of the environment at the end of
\* CGO_LDFLAGS
_build_environment_NoLdflags(os_environ, existing) ==
    LET copy == os_environ
        env == [copy EXCEPT !["GOPATH"] = Value(_gopath)]
        include_paths == get_library_paths(installdir, existing)
                         \o get_library_paths(stage_dir, existing)
        flags == combine_paths(include_paths, <<"-L">>, <<" ">>)
    IN  [env |-> [env EXCEPT !["CGO_LDFLAGS"] =
                     Value(EnvGet(env, "CGO_LDFLAGS") \o <<" ">> \o flags)],
         environ |-> os_environ]

\* env = os.environ.copy(); env['GOPATH'] = self._gopath; the library paths of
\* installdir and then of the stage directory as -L flags;
\* env['CGO_LDFLAGS'] = '{} {} {}'.format(env.get('CGO_LDFLAGS', ''), flags,
\* env.get('LDFLAGS', '')). The result is env and os.environ as the call leaves it
_build_environment(os_environ, existing) ==
    LET copy == os_environ
        env == [copy EXCEPT !["GOPATH"] = Value(_gopath)]
        include_paths == get_library_paths(installdir, existing)
                         \o get_library_paths(stage_dir, existing)
        flags == combine_paths(include_paths, <<"-L">>, <<" ">>)
    IN  [env |-> [env EXCEPT !["CGO_LDFLAGS"] =
                     Value(EnvGet(env, "CGO_LDFLAGS") \o <<" ">> \o flags \o <<" ">>
                           \o EnvGet(env, "LDFLAGS"))],
         environ |-> os_environ]

\* no _run yet
NotRun == [ran |-> FALSE, cwd |-> <<>>, env |-> [n \in EnvNames |-> Unset], existing |-> {}]

\* what _run hands to self.run: cwd = os.path.join(self._gopath_src, go_importpath)
\* and env = self._build_environment()
RunWith(os_environ, existing) ==
    [ran |-> TRUE, cwd |-> PathJoin(_gopath_src, go_importpath),
     env |-> _build_environment(os_environ, existing).env, existing |-> existing]

-----------------------------------------------------------------------------
(* GoPlugin.build, GoPlugin._run                                            *)

\* self.run(cmd, cwd, env): the tool's exit status; a status other than 0 is
\* raised as an exception that carries it
run(code) ==
    IF code = 0 THEN [exc |-> "none", code |-> 0]
    ELSE [exc |-> "CalledProcessError", code |-> code]

\* os.makedirs(install_bin_path, exist_ok=True)
makedirs(inst) == [inst EXCEPT !.exists = TRUE]

\* CopyBinaries that leaves a file that is already in installdir/bin as it is
RECURSIVE CopyBinaries_KeepExisting(_, _, _)
CopyBinaries_KeepExisting(order, bin, inst) ==
    IF order = <<>> THEN [exc |-> "none", installbin |-> inst]
    ELSE IF bin[Head(order)] = "dir"
    THEN [exc |-> "IsADirectoryError", installbin |-> inst]
    ELSE CopyBinaries_KeepExisting(Tail(order), bin,
            IF inst.files[Head(order)] # "none" THEN inst
            ELSE [inst EXCEPT !.files[Head(order)] = bin[Head(order)]])

\* for binary in os.listdir(build_bin_path): shutil.copy2(binary_path, install_bin_path)
\* over the entries in the order listdir gave them; copy2 of a directory raises
RECURSIVE CopyBinaries(_, _, _)
CopyBinaries(order, bin, inst) ==
    IF order = <<>> THEN [exc |-> "none", installbin |-> inst]
    ELSE IF bin[Head(order)] = "dir"
    THEN [exc |-> "IsADirectoryError", installbin |-> inst]
    ELSE CopyBinaries(Tail(order), bin,
                      [inst EXCEPT !.files[Head(order)] = bin[Head(order)]])

\* build that goes on to copy the binaries when the tool failed
build_IgnoreExit(inst, g, ran, order) ==
    IF ~ g.binexists
    THEN [exc |-> "FileNotFoundError", runs |-> 1, installbin |-> makedirs(inst),
          gopath |-> g]
    ELSE [exc |-> CopyBinaries(order, g.bin, makedirs(inst)).exc, runs |-> 1,
          installbin |-> CopyBinaries(order, g.bin, makedirs(inst)).installbin,
          gopath |-> g]

\* build that takes a bin directory that does not exist for an empty one
build_SkipMissingBin(inst, g, ran, order) ==
    IF ran.exc # "none"
    THEN [exc |-> ran.exc, runs |-> 1, installbin |-> inst,
          gopath |-> g]
    ELSE IF ~ g.binexists
    THEN [exc |-> "none", runs |-> 1, installbin |-> makedirs(inst),
          gopath |-> g]
    ELSE [exc |-> CopyBinaries(order, g.bin, makedirs(inst)).exc, runs |-> 1,
          installbin |-> CopyBinaries(order, g.bin, makedirs(inst)).installbin,
          gopath |-> g]

\* build that removes the gopath when the tool failed
build_CleanOnFailure(inst, g, ran, order) ==
    IF ran.exc # "none"
    THEN [exc |-> ran.exc, runs |-> 1, installbin |-> inst, gopath |-> GoAbsent]
    ELSE IF ~ g.binexists
    THEN [exc |-> "FileNotFoundError", runs |-> 1, installbin |-> makedirs(inst),
          gopath |-> g]
    ELSE [exc |-> CopyBinaries(order, g.bin, makedirs(inst)).exc, runs |-> 1,
          installbin |-> CopyBinaries(order, g.bin, makedirs(inst)).installbin,
          gopath |-> g]

\* self._run([...]) once, its exception not caught; then makedirs, listdir and
\* the copy loop, none of which removes anything from the gopath. g is the gopath
\* the tool left, ran what self.run did
build(inst, g, ran, order) ==
    IF ran.exc # "none"
    THEN [exc |-> ran.exc, runs |-> 1, installbin |-> inst,
          gopath |-> g]
    ELSE IF ~ g.binexists
    THEN [exc |-> "FileNotFoundError", runs |-> 1, installbin |-> makedirs(inst),
          gopath |-> g]
    ELSE [exc |-> CopyBinaries(order, g.bin, makedirs(inst)).exc, runs |-> 1,
          installbin |-> CopyBinaries(order, g.bin, makedirs(inst)).installbin,
          gopath |-> g]

\* the orders in which os.listdir may give the entries of a bin directory
ListDirs(bin) ==
    LET present == {n \in BinNames : bin[n] # "none"}
    IN  {o \in UNION {[1..k -> present] : k \in 0..Cardinality(present)} :
            /\ Len(o) = Cardinality(present)
            /\ \A i, j \in 1..Len(o) : i # j => o[i] # o[j]}

-----------------------------------------------------------------------------
(* The steps snapcraft runs on the part.                                    *)

GoInit ==
    /\ sourcedir \in SourceTrees
    /\ gopath \in {GoAbsent, GoSymlinked}
    /\ installbin \in {NoInstallBin,
                       [exists |-> TRUE, files |-> [NoFiles(InstallNames) EXCEPT !["README"] = "old"]],
                       [exists |-> TRUE, files |-> [NoFiles(InstallNames) EXCEPT !["syncthing"] = "old"]]}
    /\ last = Step("none", "none", "none", 0, 0, FALSE)
    \* eotlitetool is not run while the plugin is
    /\ args = <<>>
    /\ idx = 1
    /\ pc = "done"
    /\ data = <<>>
    /\ header = <<>>
    /\ exc = NoException
    /\ reported = {}
    /\ outfiles = [n \in {} |-> <<>>]
    /\ cp = 0
    /\ manifest_data = <<>>
    /\ build_data = <<>>
    /\ environ = [n \in EnvNames |-> IF n = "HOME" THEN Value(<<"/root">>) ELSE Unset]
    /\ ranwith = NotRun

\* pull: the fetch leaves the tree fetched in self.sourcedir, then it is staged
Pull(fetched) ==
    /\ sourcedir' = fetched
    /\ gopath' = pull(gopath, fetched)
    /\ last' = Step("pull", last.op, "none", 0, 0, fetched = sourcedir)
    /\ UNCHANGED <<installbin, eotvars, envvars, cpvars>>

CleanPull ==
    /\ gopath' = clean_pull(gopath).gopath
    /\ last' = Step("clean_pull", last.op, clean_pull(gopath).exc, 0, 0, TRUE)
    /\ UNCHANGED <<sourcedir, installbin, eotvars, envvars, cpvars>>

CleanBuild ==
    /\ gopath' = clean_build(gopath).gopath
    /\ last' = Step("clean_build", last.op, clean_build(gopath).exc, 0, 0, TRUE)
    /\ UNCHANGED <<sourcedir, installbin, eotvars, envvars, cpvars>>

\* build, on staged sources: the tool exits with code, has left the bin directory
\* as it was (touch = FALSE) or as out, and a package cache
Build(code, touch, out) ==
    /\ gopath.kind = "dir"
    /\ LET g == IF touch THEN [gopath EXCEPT !.binexists = TRUE, !.bin = out, !.pkg = TRUE]
                ELSE [gopath EXCEPT !.pkg = TRUE]
       IN  \E order \in ListDirs(g.bin) :
              LET done == build(installbin, g, run(code), order)
              IN  /\ gopath' = done.gopath
                  /\ installbin' = done.installbin
                  /\ last' = Step("build", last.op, done.exc, code, done.runs, TRUE)
    \* installdir and the stage directory hold no library directory here
    /\ environ' = _build_environment(environ, {}).environ
    /\ ranwith' = RunWith(environ, {})
    /\ UNCHANGED <<sourcedir, eotvars, cpvars>>

GoPull == \E fetched \in SourceTrees : Pull(fetched)

GoBuild == \E code \in 0..MaxExit, touch \in BOOLEAN, out \in BinDirs : Build(code, touch, out)

GoNext == GoPull \/ CleanPull \/ GoBuild \/ CleanBuild

GoSpec == GoInit /\ [][GoNext]_vars

-----------------------------------------------------------------------------
(* _run on its own, in every environment and with every set of library      *)
(* directories.                                                             *)

EnvInit ==
    /\ environ \in Environments
    /\ ranwith = NotRun
    \* neither the steps of the part nor eotlitetool are run
    /\ sourcedir = <<>>
    /\ gopath = <<>>
    /\ installbin = <<>>
    /\ last = <<>>
    /\ args = <<>>
    /\ idx = 1
    /\ pc = "done"
    /\ data = <<>>
    /\ header = <<>>
    /\ exc = NoException
    /\ reported = {}
    /\ outfiles = [n \in {} |-> <<>>]
    /\ cp = 0
    /\ manifest_data = <<>>
    /\ build_data = <<>>

\* env = self._build_environment(); self.run(cmd, cwd=..., env=env), whatever
\* status the tool exits with
_run(existing, code) ==
    /\ environ' = _build_environment(environ, existing).environ
    /\ ranwith' = RunWith(environ, existing)
    /\ run(code).code = code
    /\ UNCHANGED <<eotvars, govars, cpvars>>

EnvRun == \E existing \in SUBSET LibPaths, code \in 0..MaxExit : _run(existing, code)

EnvNext == EnvRun

EnvSpec == EnvInit /\ [][EnvNext]_vars

-----------------------------------------------------------------------------
(* generate_font.py: the codes of the icons. A code is the string           *)
(* '0x%x' % cp, a sequence of characters.                                   *)

FirstCodepoint == 61696

HexDigits == <<"0", "1", "2", "3", "4", "5", "6", "7", "8", "9", "a", "b", "c", "d", "e", "f">>

\* '%x' % n
RECURSIVE ToHex(_)
ToHex(n) ==
    IF n < 16 THEN <<HexDigits[n + 1]>>
    ELSE ToHex(n \div 16) \o <<HexDigits[(n % 16) + 1]>>

\* '0x%x' % (c)
FormatCode(c) == <<"0", "x">> \o ToHex(c)

\* int(chr_code, 16): the digits after '0x', in either case
int16(chr_code) ==
    LET digit(ch) == IF ch = "A" THEN 10 ELSE IF ch = "B" THEN 11 ELSE IF ch = "C" THEN 12
                     ELSE IF ch = "D" THEN 13 ELSE IF ch = "E" THEN 14 ELSE IF ch = "F" THEN 15
                     ELSE (CHOOSE k \in 1..16 : HexDigits[k] = ch) - 1
        V[k \in 2..Len(chr_code)] ==
            IF k = 2 THEN 0 ELSE V[k - 1] * 16 + digit(chr_code[k])
    IN  V[Len(chr_code)]

\* chr_code = None
None == <<>>

Icon(name, code) == [name |-> name, code |-> code]

\* the names of the icons of the manifest, by position, and of the source files
ManifestNames == <<"alert", "archive", "arrow", "beer">>
SrcIconNames == {"alert", "bug", "camera"}
SrcExts == {".svg", ".eps", ".txt"}

\* the codes a manifest may hold: codes this script wrote, from the first
\* codepoint on, and a code written by hand with capital digits
ManifestCodes ==
    {FormatCode(FirstCodepoint + k) : k \in 0..MaxManifest} \cup {<<"0", "x", "F", "1", "0", "1">>}

\* the manifests the script may load: icons with codes that differ, in any order
Manifests ==
    {m \in UNION {[1..n -> ManifestCodes] : n \in 0..MaxManifest} :
        \A i, j \in 1..Len(m) : i # j => m[i] # m[j]}

\* for ionicon in manifest_data['icons']: if ionicon['name'] == name: the code of
\* the first icon of that name, None without one
ManifestCode(icons, name) ==
    LET found == {i \in 1..Len(icons) : icons[i].name = name}
    IN  IF found = {} THEN None
        ELSE icons[CHOOSE i \in found : \A j \in found : i <= j].code

\* one pass of `for ionicon in manifest_data['icons']` in the search of a free
\* code: on an icon whose code is chr_code, cp += 1 and the pass goes on with the
\* code of the new cp
RECURSIVE ScanIcons(_, _, _)
ScanIcons(icons, c, already_exists) ==
    IF icons = <<>> THEN [cp |-> c, already_exists |-> already_exists]
    ELSE IF Head(icons).code = FormatCode(c)
    THEN ScanIcons(Tail(icons), c + 1, TRUE)
    ELSE ScanIcons(Tail(icons), c, already_exists)

\* NewCode with one pass over the manifest only
NewCode_OnePass(icons, c) ==
    [cp |-> ScanIcons(icons, c, FALSE).cp,
     chr_code |-> FormatCode(ScanIcons(icons, c, FALSE).cp)]

\* while True: a pass from the code of cp; break after a pass that met no icon
\* with its code
RECURSIVE NewCode(_, _)
NewCode(icons, c) ==
    LET pass == ScanIcons(icons, c, FALSE)
    IN  IF ~ pass.already_exists
        THEN [cp |-> c, chr_code |-> FormatCode(c)]
        ELSE NewCode(icons, pass.cp)

CpInit ==
    /\ cp = FirstCodepoint
    /\ manifest_data \in {[i \in 1..Len(m) |-> Icon(ManifestNames[i], m[i])] : m \in Manifests}
    /\ build_data = <<>>
    \* neither eotlitetool nor the plugin are run
    /\ args = <<>>
    /\ idx = 1
    /\ pc = "done"
    /\ data = <<>>
    /\ header = <<>>
    /\ exc = NoException
    /\ reported = {}
    /\ outfiles = [n \in {} |-> <<>>]
    /\ sourcedir = <<>>
    /\ gopath = <<>>
    /\ installbin = <<>>
    /\ last = <<>>
    /\ environ = <<>>
    /\ ranwith = <<>>

\* the body of `for filename in filenames` for the file name + ext, down to
\* build_data['icons'].append
ProcessFile(name, ext) ==
    /\ Len(build_data) < MaxSrcIcons
    /\ IF ext \in {".svg", ".eps"}
       THEN LET chr_code == ManifestCode(manifest_data, name)
                new == NewCode(manifest_data, cp)
            IN  IF chr_code = None
                THEN /\ cp' = new.cp
                     /\ manifest_data' = Append(manifest_data, Icon(name, new.chr_code))
                     /\ build_data' = Append(build_data, Icon(name, new.chr_code))
                ELSE /\ build_data' = Append(build_data, Icon(name, chr_code))
                     /\ UNCHANGED <<cp, manifest_data>>
       ELSE UNCHANGED <<cp, manifest_data, build_data>>
    /\ UNCHANGED <<eotvars, govars, envvars>>

CpWalk == \E name \in SrcIconNames, ext \in SrcExts : ProcessFile(name, ext)

CpNext == CpWalk

CpSpec == CpInit /\ [][CpNext]_vars

-----------------------------------------------------------------------------
(* Properties of eotlitetool.py.                                            *)

\* make_eot_header has been called on data, the bytes of args[idx]
HeaderCalled == pc \in {"write", "raised"}

\* make_eot_header returned the header of data
HeaderReturned == pc = "write"

\* the name blocks make_eot_name_headers emitted for data, in the order of the header
EmittedBlocks ==
    LET nameTableDir == get_table_directory(data).tableDir[TABLE_NAME]
        name == get_name_records(Slice(data, nameTableDir.offset,
                                       nameTableDir.offset + nameTableDir.length))
    IN  [k \in 1..4 |-> NameHeader(data, nameTableDir.offset, name, eotnames[k]).bytes]

\* the font file f holds a Microsoft / Unicode BMP / en-US record of nameID nid
HasMsName(f, nid) ==
    \E i \in 1..Len(f.recs) :
        /\ f.recs[i].pid = 3 /\ f.recs[i].eid = 1 /\ f.recs[i].lid = 1033
        /\ f.recs[i].nid = nid

\* the four name slots of the header: family, style, version, full
SlotNameIDs == <<1, 2, 5, 4>>

\* C1: the eotSize field of a returned header is 82 + the bytes of the four name
\* blocks + the bytes of the root string block + len(fontdata), the fontDataSize
\* field is len(fontdata), and the header is eotSize - fontDataSize bytes long.
C1_EotSizeExact ==
    HeaderReturned =>
        /\ U32LE(header, 0) = 82 + Len(Join(EmittedBlocks)) + 2 + Len(data)
        /\ U32LE(header, 4) = Len(data)
        /\ Len(header) = U32LE(header, 0) - U32LE(header, 4)
        /\ SubSeq(header, 83, Len(header)) = Join(EmittedBlocks) \o <<0, 0>>

C1_Witness ==
    /\ HeaderReturned
    /\ HasMsName(args[idx], 1)
    /\ Len(header) > 100

\* C2: when the table directory was read and lacks one of head, name, OS/2,
\* make_eot_header raises FontError 'missing required table' with the first
\* missing tag in the order head, name, OS/2, and no header is returned or written.
C2_MissingRequiredTable ==
    LET font == get_table_directory(data)
        tags == DOMAIN font.tableDir
        firstMissing == IF TABLE_HEAD \notin tags THEN TABLE_HEAD
                        ELSE IF TABLE_NAME \notin tags THEN TABLE_NAME
                        ELSE TABLE_OS2
    IN  (/\ HeaderCalled
         /\ font.exc = "none"
         /\ {TABLE_HEAD, TABLE_NAME, TABLE_OS2} \ tags # {})
        => /\ pc = "raised"
           /\ exc = [exc |-> "FontError", msg |-> "missing required table",
                     tag |-> firstMissing]
           /\ eotname(args[idx]) \notin DOMAIN outfiles

C2_Witness ==
    /\ pc = "raised"
    /\ exc.msg = "missing required table"
    /\ exc.tag = TABLE_NAME
    /\ TABLE_OS2 \notin DOMAIN get_table_directory(data).tableDir

\* C3 as amended: a name slot without a Microsoft / Unicode BMP / en-US record is
\* emitted as 4 zero bytes (a zero size and a zero padding halfword) and is no
\* failure; a whole font with head, OS/2 and name tables and no such record for
\* any slot yields a header of 82 + 16 + 2 = 100 bytes.
C3_AbsentNameFourZeros ==
    LET f == args[idx]
        none == \A k \in 1..4 : ~ HasMsName(f, SlotNameIDs[k])
    IN  /\ HeaderReturned =>
            /\ SubSeq(header, 83, Len(header)) = Join(EmittedBlocks) \o <<0, 0>>
            /\ \A k \in 1..4 :
                  ~ HasMsName(f, SlotNameIDs[k]) => EmittedBlocks[k] = <<0, 0, 0, 0>>
            /\ none => Len(header) = 100
        /\ (HeaderCalled /\ f = GoodFont(f.recs) /\ none) => HeaderReturned

C3_Witness ==
    /\ HeaderReturned
    /\ args[idx].recs # <<>>
    /\ \A k \in 1..4 : ~ HasMsName(args[idx], SlotNameIDs[k])
    /\ Len(header) = 100

\* C3 as the claim states it: an absent slot is 2 zero bytes and the header of a
\* font without matching name records is 82 + 8 + 2 = 92 bytes long.
C3_Original ==
    LET f == args[idx]
    IN  HeaderReturned =>
            /\ \A k \in 1..4 :
                  ~ HasMsName(f, SlotNameIDs[k]) => EmittedBlocks[k] = <<0, 0>>
            /\ (\A k \in 1..4 : ~ HasMsName(f, SlotNameIDs[k])) => Len(header) = 92

\* C4 as the claim states it: a blob with an SFNT header is rejected as an
\* invalid font type exactly when its version is none of 'OTTO', 0x00010000, 'true'.
C4_Original ==
    (HeaderCalled /\ Len(data) >= 12) =>
        ((pc = "raised" /\ exc = FontError("invalid font type"))
            <=> U32BE(data, 0) \notin {multichar(<<79, 84, 84, 79>>), 65536,
                                       multichar(<<116, 114, 117, 101>>)})

\* C5 as the claim states it: a font whose record for one of the four slots (the
\* last Microsoft / Unicode BMP / en-US record of that nameID) has an odd length
\* makes make_eot_header fail, and every block of a returned header declares as
\* its size the number of string bytes it holds.
C5_Original ==
    LET f == args[idx]
        effective(i) == /\ HasMsName(f, f.recs[i].nid)
                        /\ f.recs[i] = MsRec(f.recs[i].nid, f.recs[i].len)
                        /\ f.recs[i].nid \in {1, 2, 4, 5}
                        /\ \A j \in (i + 1)..Len(f.recs) :
                              f.recs[j] # MsRec(f.recs[i].nid, f.recs[j].len)
    IN  /\ (HeaderCalled /\ \E i \in 1..Len(f.recs) : effective(i) /\ f.recs[i].len % 2 = 1)
            => pc = "raised"
        /\ HeaderReturned =>
              \A k \in 1..4 : U16LE(EmittedBlocks[k], 0) = Len(EmittedBlocks[k]) - 4

\* the font file f has no format error: it is not empty and make_eot_header
\* returns a header for it
Convertible(f) == Len(readfont(f)) # 0 /\ make_eot_header(readfont(f)).exc = "none"

\* C6 as the claim states it: when main has ended, by returning or by a
\* FontError, every font of the command line that has no error has its output
\* file, and no font with an error has one.
C6_Original ==
    (pc = "done" \/ (pc = "raised" /\ exc.exc = "FontError")) =>
        \A i \in 1..Len(args) :
            Convertible(args[i]) <=> eotname(args[i]) \in DOMAIN outfiles

\* C12: every .eotlite file written holds the header make_eot_header returned
\* for the font followed by the font: its length is the eotSize field, and its
\* last fontDataSize bytes (the field at offset 4) are the bytes readfont gave, byte
\* for byte; between readfont and the write the font bytes are not changed.
C12_RoundTrip ==
    /\ HeaderCalled => data = readfont(args[idx])
    /\ \A i \in 1..Len(args) :
          eotname(args[i]) \in DOMAIN outfiles =>
              LET out == outfiles[eotname(args[i])]
                  fontDataSize == U32LE(out, 4)
              IN  /\ Len(out) = U32LE(out, 0)
                  /\ fontDataSize = Len(readfont(args[i]))
                  /\ SubSeq(out, Len(out) - fontDataSize + 1, Len(out)) = readfont(args[i])
                  /\ SubSeq(out, 1, Len(out) - fontDataSize)
                        = make_eot_header(readfont(args[i])).bytes

C12_Witness ==
    /\ pc = "done"
    /\ Len(args) = 2
    /\ args[1] # args[2]
    /\ \A i \in 1..2 : eotname(args[i]) \in DOMAIN outfiles
    /\ HasMsName(args[2], 1)
    /\ Len(outfiles[eotname(args[2])]) > 100 + Len(readfont(args[2]))

\* the directory of data, with numTables entries, ends after the end of data
DirectoryPastEnd == SFNT_SIZE + TABLE_DIR_SIZE * U16BE(data, 4) > Len(data)

\* C13 as amended: make_eot_header raises FontError 'truncated font data' when the
\* data is shorter than the 12-byte SFNT header, and 'truncated font data, table
\* directory extends past end of data' when the version is one it accepts ('OTTO'
\* or 0x00010000) and 12 + 16 * numTables exceeds the length of the data; data of
\* 12 bytes or more with another version raises 'invalid font type' first,
\* whatever its numTables. In all three cases no directory entry is read, and
\* every entry of a directory that is read ends within the data.
C13_TruncatedAfterVersion ==
    HeaderCalled =>
        /\ Len(data) < SFNT_SIZE =>
              /\ pc = "raised"
              /\ exc = FontError("truncated font data")
        /\ (Len(data) >= SFNT_SIZE /\ U32BE(data, 0) \in {SFNT_CFF, SFNT_TRUE}
                /\ DirectoryPastEnd) =>
              /\ pc = "raised"
              /\ exc = FontError("truncated font data, table directory extends past end of data")
        /\ (Len(data) >= SFNT_SIZE /\ U32BE(data, 0) \notin {SFNT_CFF, SFNT_TRUE}) =>
              /\ pc = "raised"
              /\ exc = FontError("invalid font type")
        /\ IF get_table_directory(data).exc = "none"
           THEN \A i \in 0..(get_table_directory(data).numTables - 1) :
                   SFNT_SIZE + (i + 1) * TABLE_DIR_SIZE <= Len(data)
           ELSE "tableDir" \notin DOMAIN get_table_directory(data)

C13_Witness ==
    /\ pc = "raised"
    /\ Len(data) > SFNT_SIZE + TABLE_DIR_SIZE
    /\ DirectoryPastEnd
    /\ exc = FontError("truncated font data, table directory extends past end of data")

\* C13 as the claim states it: make_eot_header raises one of the two 'truncated
\* font data' errors whenever the data is shorter than 12 bytes or 12 + 16 *
\* numTables exceeds its length.
C13_Original ==
    (HeaderCalled /\ (Len(data) < SFNT_SIZE \/ DirectoryPastEnd)) =>
        /\ pc = "raised"
        /\ exc \in {FontError("truncated font data"),
                    FontError("truncated font data, table directory extends past end of data")}

\* make_eot_header raised one of its two 'invalid length' errors
TableTooShort ==
    /\ pc = "raised"
    /\ exc \in {FontError("OS/2 table invalid length"), FontError("head table invalid length")}

\* the directory of data was read and holds the three required tables
RequiredTablesFound ==
    /\ get_table_directory(data).exc = "none"
    /\ MissingRequired(get_table_directory(data).tableDir) = 0

\* C14 as amended: the fixed-field span make_eot_header reads from the OS/2 table
\* is 86 bytes (through the two codepage range words at offsets 78 and 82), not
\* 60. On data whose directory holds head, name and OS/2, it raises 'OS/2 table
\* invalid length' exactly when the declared OS/2 length is below 86, and 'head
\* table invalid length' exactly when the OS/2 length is 86 or more, the 86 bytes
\* at the OS/2 offset lie within the data, and the declared head length is below
\* 12; declared lengths of at least 86 and 12 are not rejected by these tests, and
\* on other data neither error is raised.
C14_TableTooShort86 ==
    LET tableDir == get_table_directory(data).tableDir
        os2Dir == tableDir[TABLE_OS2]
        headDir == tableDir[TABLE_HEAD]
    IN  HeaderCalled =>
            IF RequiredTablesFound
            THEN /\ (pc = "raised" /\ exc = FontError("OS/2 table invalid length"))
                      <=> os2Dir.length < 86
                 /\ (pc = "raised" /\ exc = FontError("head table invalid length"))
                      <=> (/\ os2Dir.length >= 86
                           /\ os2Dir.offset + 86 <= Len(data)
                           /\ headDir.length < 12)
            ELSE ~ TableTooShort

C14_Witness ==
    /\ RequiredTablesFound
    /\ get_table_directory(data).tableDir[TABLE_OS2].length = 60
    /\ get_table_directory(data).tableDir[TABLE_HEAD].length = 12
    /\ TableTooShort

\* C14 as the claim states it, with the 60-byte span: on data whose directory
\* holds the required tables, all of them within the data, an 'invalid length'
\* error is raised exactly when the declared OS/2 length is below 60 or the
\* declared head length is below 12.
C14_Original ==
    LET tableDir == get_table_directory(data).tableDir
        os2Dir == tableDir[TABLE_OS2]
        headDir == tableDir[TABLE_HEAD]
    IN  (/\ HeaderCalled
         /\ RequiredTablesFound
         /\ os2Dir.offset + 86 <= Len(data)
         /\ headDir.offset + 12 <= Len(data))
        => (TableTooShort <=> (os2Dir.length < 60 \/ headDir.length < 12))

\* C15 as the claim states it, for data whose directory holds the required
\* tables: when the 12 bytes read of the head table, the 86 bytes read of the OS/2
\* table or the 6-byte header of the name table do not lie within the data and
\* within the table's declared length, make_eot_header raises a FontError, and
\* whatever the data it either returns a header or raises a FontError.
C15_Original ==
    LET tableDir == get_table_directory(data).tableDir
        beyond(tag, span) == \/ tableDir[tag].offset + span > Len(data)
                             \/ tableDir[tag].length < span
    IN  /\ (/\ HeaderCalled
            /\ RequiredTablesFound
            /\ \/ beyond(TABLE_HEAD, HEAD_SIZE)
               \/ beyond(TABLE_OS2, OS2_SIZE)
               \/ beyond(TABLE_NAME, NAME_HEADER_SIZE))
           => (pc = "raised" /\ exc.exc = "FontError")
        /\ (HeaderCalled /\ RequiredTablesFound /\ ~ HeaderReturned)
           => (pc = "raised" /\ exc.exc = "FontError")

\* the bytes of str, halfword by halfword, with the two bytes of each exchanged
Swap16(str) ==
    [k \in 1..(2 * (Len(str) \div 2)) |-> IF k % 2 = 1 THEN str[k + 1] ELSE str[k - 1]]

\* the records of the font file f that are Microsoft / Unicode BMP / en-US records
\* of nameID nid, by their position in the name table
KeptRecords(f, nid) ==
    {i \in 1..Len(f.recs) :
        /\ f.recs[i].pid = 3 /\ f.recs[i].eid = 1 /\ f.recs[i].lid = 1033
        /\ f.recs[i].nid = nid}

\* C18: in a returned header the block of each name slot is set by the records of
\* the slot's nameID with platformID 3, encodingID 1 and languageID 0x0409 alone:
\* with no such record the block is four zero bytes, whatever other records the
\* name table holds, and with several the block carries the length and the string
\* of the one that is last in the name table.
C18_FilterLastWins ==
    LET f == args[idx]
    IN  HeaderReturned =>
            \A k \in 1..4 :
                LET kept == KeptRecords(f, SlotNameIDs[k])
                    i == CHOOSE i \in kept : \A j \in kept : j <= i
                IN  IF kept = {}
                    THEN EmittedBlocks[k] = <<0, 0, 0, 0>>
                    ELSE EmittedBlocks[k]
                            = PackU16LE(f.recs[i].len)
                              \o Swap16(NameStringBytes(f.recs, i)) \o <<0, 0>>

C18_Witness ==
    /\ HeaderReturned
    /\ Len(args[idx].recs) = 2
    /\ KeptRecords(args[idx], 1) = {1, 2}
    /\ EmittedBlocks[1] = <<2, 0, 34, 33, 0, 0>>
    /\ SubSeq(header, 83, 88) = EmittedBlocks[1]

\* the block the header is to hold for slot k of the font file f, whose record
\* for the slot, if any, has an even length n: the size n in two bytes, low byte
\* first, the n bytes of the string with each pair exchanged, two zero bytes
SlotBlock(f, k) ==
    LET kept == KeptRecords(f, SlotNameIDs[k])
        i == CHOOSE i \in kept : \A j \in kept : j <= i
        n == f.recs[i].len
        str == NameStringBytes(f.recs, i)
    IN  IF kept = {} THEN <<0, 0, 0, 0>>
        ELSE <<n % 256, n \div 256>>
             \o [j \in 1..n |-> IF j % 2 = 1 THEN str[j + 1] ELSE str[j - 1]]
             \o <<0, 0>>

\* every record of f that sets a slot of the header has an even length
EvenNames(f) ==
    \A k \in 1..4 : \A i \in KeptRecords(f, SlotNameIDs[k]) : f.recs[i].len % 2 = 0

\* C19: when every name that sets a slot has an even byte length, the returned
\* header holds after its 82 fixed bytes the blocks of the slots family, style,
\* version, full in this order and then the two bytes of the root string; the
\* block of a slot with a name of n bytes is n as a little-endian halfword, the
\* string with the two bytes of every code unit exchanged and the code units in
\* their order, and a zero halfword, n + 4 bytes in all.
C19_NameBlocksLittleEndian ==
    LET f == args[idx]
    IN  (HeaderReturned /\ EvenNames(f)) =>
            /\ SlotNameIDs = <<NAME_ID_FAMILY, NAME_ID_STYLE, NAME_ID_VERSION, NAME_ID_FULL>>
            /\ SubSeq(header, 83, Len(header))
                  = SlotBlock(f, 1) \o SlotBlock(f, 2) \o SlotBlock(f, 3) \o SlotBlock(f, 4)
                    \o <<0, 0>>
            /\ \A k \in 1..4 : \A i \in KeptRecords(f, SlotNameIDs[k]) :
                  (\A j \in KeptRecords(f, SlotNameIDs[k]) : j <= i)
                      => Len(SlotBlock(f, k)) = f.recs[i].len + 4

C19_Witness ==
    /\ HeaderReturned
    /\ args[idx] = GoodFont(<<MsRec(NAME_ID_FULL, 2), MsRec(NAME_ID_VERSION, 4),
                              MsRec(NAME_ID_STYLE, 2), MsRec(NAME_ID_FAMILY, 4)>>)
    /\ SubSeq(header, 83, Len(header))
          = <<4, 0, 66, 65, 68, 67, 0, 0>> \o <<2, 0, 50, 49, 0, 0>>
            \o <<4, 0, 34, 33, 36, 35, 0, 0>> \o <<2, 0, 18, 17, 0, 0>> \o <<0, 0>>

-----------------------------------------------------------------------------
(* Properties of the plugin.                                                *)

\* the staged tree at the import path: what is there, its files and its bin
StagedTree(g) == <<g.kind, g.files, g.binexists, g.bin>>

\* C7: a pull does not fail and leaves a directory at the import path, never a
\* symlink, that holds every file of the source tree; a pull right after a pull,
\* with the same source tree, leaves the staged tree as the first one left it.
C7_RestageIdempotent ==
    [][GoPull =>
        /\ last'.exc = "none"
        /\ gopath'.kind = "dir"
        /\ \A n \in SrcNames : sourcedir'[n] # "none" => gopath'.files[n] = sourcedir'[n]
        /\ (last.op = "pull" /\ sourcedir' = sourcedir)
              => StagedTree(gopath') = StagedTree(gopath)]_vars

C7_Witness ==
    /\ last.op = "pull"
    /\ last.prev = "pull"
    /\ last.same
    /\ gopath.kind = "dir"

\* C8: a build whose tool exits with a status other than 0 raises the exception of
\* self.run with that status, has run the tool once, and leaves installdir/bin as
\* it was; installdir/bin changes only in a build whose tool exited with 0.
C8_BuildFailedNoCopy ==
    [][/\ (GoBuild /\ last'.code # 0)
            => /\ last'.exc = "CalledProcessError"
               /\ last'.runs = 1
               /\ installbin' = installbin
       /\ installbin' # installbin => (GoBuild /\ last'.code = 0)]_vars

C8_Witness ==
    /\ last.op = "build"
    /\ last.code = 2
    /\ last.exc = "CalledProcessError"
    /\ gopath.binexists
    /\ gopath.bin["syncthing"] = "v2"
    /\ installbin.files["syncthing"] # "v2"

\* C9 as amended: after the tool exited with 0 the copy of the binaries succeeds
\* exactly when the bin directory under the import path exists and holds no
\* subdirectory; a bin directory that does not exist is a FileNotFoundError; one
\* that exists and is empty is a success that copies nothing.
C9_CollectIffBinExists ==
    (last.op = "build" /\ last.code = 0) =>
        /\ last.exc = "none"
              <=> (gopath.binexists /\ \A n \in BinNames : gopath.bin[n] # "dir")
        /\ ~ gopath.binexists => last.exc = "FileNotFoundError"
        /\ last.exc = "none" =>
              \A n \in BinNames : gopath.bin[n] # "none" => installbin.files[n] = gopath.bin[n]

C9_Witness ==
    /\ last.op = "build"
    /\ last.code = 0
    /\ last.exc = "FileNotFoundError"
    /\ ~ gopath.binexists

\* C9 as the claim states it, for bin directories without subdirectories: after
\* the tool exited with 0 the copy succeeds exactly when the bin directory holds
\* a binary, so that no success has an empty set of artifacts.
C9_Original ==
    (last.op = "build" /\ last.code = 0 /\ \A n \in BinNames : gopath.bin[n] # "dir") =>
        /\ last.exc = "none" <=> (gopath.binexists /\ \E n \in BinNames : gopath.bin[n] # "none")
        /\ ~ gopath.binexists => last.exc # "none"

\* C10: clean_pull does not fail and leaves no gopath, so no staged tree, whatever
\* the step before it was; where there is no gopath it changes nothing.
C10_CleanPullUnstages ==
    [][CleanPull =>
        /\ last'.exc = "none"
        /\ ~ gopath'.exists
        /\ gopath'.kind = "absent"
        /\ ~ gopath.exists => (gopath' = gopath /\ installbin' = installbin)]_vars

C10_Witness ==
    /\ last.op = "clean_pull"
    /\ last.prev = "clean_pull"
    /\ last.exc = "none"
    /\ gopath = GoAbsent

C16_FailedBuildKeepsStaged ==
    [][/\ (GoBuild /\ last'.code # 0)
            => /\ last'.exc # "none"
               /\ gopath'.exists
               /\ gopath'.kind = gopath.kind
               /\ gopath'.files = gopath.files
               /\ installbin' = installbin
       /\ (\E n \in SrcNames : gopath.files[n] # "none" /\ gopath'.files[n] # gopath.files[n])
            => (CleanPull \/ GoPull)
       /\ (\E n \in SrcNames : gopath.files[n] # "none" /\ gopath'.files[n] = "none")
            => CleanPull]_vars

C16_Witness ==
    /\ last.op = "build"
    /\ last.prev = "build"
    /\ last.code = 1
    /\ last.exc = "CalledProcessError"
    /\ gopath.kind = "dir"
    /\ gopath.files["build.go"] = "v1"
    /\ gopath.files["main.go"] = "v1"

\* C17: after a build that ended without exception, installdir/bin exists and
\* holds, for every file of the bin directory under the import path, a file of the
\* same name and content, written over a file of that name that was there; the
\* files of installdir/bin with other names are as they were.
C17_BinariesCopied ==
    [][(GoBuild /\ last'.exc = "none") =>
        /\ installbin'.exists
        /\ \A n \in BinNames :
              gopath'.bin[n] # "none" => installbin'.files[n] = gopath'.bin[n]
        /\ \A n \in InstallNames :
              (n \notin BinNames \/ gopath'.bin[n] = "none")
                  => installbin'.files[n] = installbin.files[n]]_vars

C17_Witness ==
    /\ last.op = "build"
    /\ last.prev = "build"
    /\ last.exc = "none"
    /\ gopath.bin["syncthing"] = "v2"
    /\ gopath.bin["stcli"] = "none"
    /\ installbin.files["syncthing"] = "v2"
    /\ installbin.files["stcli"] = "v1"
    /\ installbin.files["README"] = "old"

\* the pieces of a string other than its spaces
Words(str) ==
    LET NoSpace(a) == a # " "
    IN  SelectSeq(str, NoSpace)

\* the -L flags of the library directories that exist, those of installdir
\* before those of the stage directory, with a space between two flags
LibraryFlags(existing) ==
    LET ordered == <<PathJoin(installdir, <<"lib">>), PathJoin(installdir, <<"usr/lib">>),
                     PathJoin(stage_dir, <<"lib">>), PathJoin(stage_dir, <<"usr/lib">>)>>
        Exists(p) == p \in existing
        found == SelectSeq(ordered, Exists)
        F[k \in 0..Len(found)] ==
            IF k = 0 THEN <<>>
            ELSE IF k = 1 THEN <<"-L">> \o found[1]
            ELSE F[k - 1] \o <<" ">> \o <<"-L">> \o found[k]
    IN  F[Len(found)]

\* C20 as amended: _run runs the tool in src/<importpath> of the gopath with an
\* environment in which GOPATH is the gopath, CGO_LDFLAGS is its previous value
\* (empty when unset), a space, the -L flags of the library directories of
\* installdir and then of the stage directory, a space, and the value of LDFLAGS
\* (empty when unset), and every other variable is as in os.environ; os.environ
\* itself is as it was.
C20_BuildEnvironment ==
    [][EnvRun =>
        /\ environ' = environ
        /\ ranwith'.ran
        /\ ranwith'.cwd = <<"parts/syncthing", "/", "go", "/", "src", "/",
                            "github.com/syncthing/syncthing">>
        /\ ranwith'.env["GOPATH"] = Value(<<"parts/syncthing", "/", "go">>)
        /\ ranwith'.env["CGO_LDFLAGS"]
              = Value(EnvGet(environ, "CGO_LDFLAGS") \o <<" ">>
                      \o LibraryFlags(ranwith'.existing) \o <<" ">>
                      \o EnvGet(environ, "LDFLAGS"))
        /\ \A n \in EnvNames \ {"GOPATH", "CGO_LDFLAGS"} : ranwith'.env[n] = environ[n]]_vars

C20_Witness ==
    /\ ranwith.ran
    /\ ~ environ["GOPATH"].set
    /\ environ["CGO_LDFLAGS"] = Value(<<"-lm">>)
    /\ environ["LDFLAGS"] = Value(<<"-Wl,-z,now">>)
    /\ ranwith.env["LDFLAGS"] = Value(<<"-Wl,-z,now">>)
    /\ ranwith.env["CGO_LDFLAGS"]
          = Value(<<"-lm", " ", "-L", "parts/syncthing", "/", "install", "/", "usr/lib", " ",
                    "-L", "stage", "/", "lib", " ", "-Wl,-z,now">>)

\* C20 as the claim states it: the CGO_LDFLAGS of the tool's environment is made
\* of its previous value and of the -L flags of the library directories, and of
\* nothing else.
C20_Original ==
    [][EnvRun =>
        Words(ranwith'.env["CGO_LDFLAGS"].val)
            = Words(EnvGet(environ, "CGO_LDFLAGS")) \o Words(LibraryFlags(ranwith'.existing))]_vars

-----------------------------------------------------------------------------
(* Properties of generate_font.py.                                          *)

\* the codes of the icons differ from one another
CodesDistinct(icons) ==
    \A i, j \in 1..Len(icons) : i # j => icons[i].code # icons[j].code

\* C21: the codes of the manifest differ from one another after every file; a file
\* whose name the manifest holds leaves the manifest and cp as they were and is
\* built with the code the manifest holds for it; a file with a new name leaves
\* the icons of the manifest as they were and appends one icon, with the code of a
\* codepoint not below cp that no icon of the manifest has; and when the manifest
\* holds only codes as the script writes them, the codepoints differ as well.
C21_CodesStayDistinct ==
    /\ [](CodesDistinct(manifest_data))
    /\ []((\A i \in 1..Len(manifest_data) :
              manifest_data[i].code = FormatCode(int16(manifest_data[i].code)))
            => \A i, j \in 1..Len(manifest_data) :
                  i # j => int16(manifest_data[i].code) # int16(manifest_data[j].code))
    /\ [][CpWalk =>
            /\ SubSeq(manifest_data', 1, Len(manifest_data)) = manifest_data
            /\ Len(build_data') = Len(build_data) + 1 =>
                  LET name == build_data'[Len(build_data')].name
                      code == build_data'[Len(build_data')].code
                  IN  IF \E i \in 1..Len(manifest_data) : manifest_data[i].name = name
                      THEN /\ manifest_data' = manifest_data
                           /\ cp' = cp
                           /\ code = ManifestCode(manifest_data, name)
                      ELSE /\ manifest_data' = Append(manifest_data, Icon(name, code))
                           /\ code = FormatCode(cp')
                           /\ cp' >= cp
                           /\ \A i \in 1..Len(manifest_data) : manifest_data[i].code # code]_vars

C21_Witness ==
    /\ Len(manifest_data) = 5
    /\ manifest_data[1].code = FormatCode(FirstCodepoint + 2)
    /\ manifest_data[2].code = FormatCode(FirstCodepoint + 1)
    /\ manifest_data[3].code = FormatCode(FirstCodepoint)
    /\ manifest_data[4] = Icon("bug", <<"0", "x", "f", "1", "0", "3">>)
    /\ manifest_data[5] = Icon("camera", <<"0", "x", "f", "1", "0", "4">>)
    /\ cp = FirstCodepoint + 4
    /\ Len(build_data) = 3
    /\ build_data[3] = Icon("bug", <<"0", "x", "f", "1", "0", "3">>)

====
